---- MODULE Spec2Model ----
(***************************************************************************)
(* Model of analyzeGitHistoryByBranch (src/main.go, lines 235-345) of      *)
(* gogitstats: branch enumeration, merge-base range resolution, the git    *)
(* log query per branch, the line parser and the aggregation into          *)
(* branchReports, and the final removal of empty branch reports.           *)
(*                                                                         *)
(* Strings the code inspects character by character (log lines, branch     *)
(* names, dates, numeric fields, timeline keys) are sequences of           *)
(* one-character strings, so that Contains, Split, TrimSpace, Atoi,        *)
(* time.Parse and Sprintf are computed as the library computes them.       *)
(***************************************************************************)
EXTENDS Integers, Sequences, FiniteSets, TLC

(***************************************************************************)
(* Bounds of the model.                                                    *)
(***************************************************************************)
\* most entries in the output of `git branch`
MaxBranches == 2
\* most lines read from the `git log` outputs of one run
MaxLines == 3
\* width of Go's int in the model (64 on the build targets; TLC's own
\* integers are 32 bits wide, so the model keeps a narrower word)
IntBits == 16

(***************************************************************************)
(* Characters and strings.                                                 *)
(***************************************************************************)
Digits == <<"0", "1", "2", "3", "4", "5", "6", "7", "8", "9">>

Lower == <<"a", "b", "c", "d", "e", "f", "g", "h", "i", "j", "k", "l", "m",
           "n", "o", "p", "q", "r", "s", "t", "u", "v", "w", "x", "y", "z">>

Upper == <<"A", "B", "C", "D", "E", "F", "G", "H", "I", "J", "K", "L", "M",
           "N", "O", "P", "Q", "R", "S", "T", "U", "V", "W", "X", "Y", "Z">>

\* unicode.IsSpace on the characters that occur
Space == {" ", "\t", "\r", "\n"}

EmptyStr == <<>>

Min(S) == CHOOSE x \in S : \A y \in S : x <= y

IsDigit(c) == \E i \in 1..10 : Digits[i] = c

DigitVal(c) == (CHOOSE i \in 1..10 : Digits[i] = c) - 1

\* strings.Contains(s, c) for a one-character c
Contains(s, c) == \E i \in 1..Len(s) : s[i] = c

\* strings.Split(s, sep) for a one-character sep: always at least one field
RECURSIVE Split(_, _)
Split(s, sep) ==
    LET at == {i \in 1..Len(s) : s[i] = sep}
    IN  IF at = {} THEN <<s>>
        ELSE <<SubSeq(s, 1, Min(at) - 1)>>
                 \o Split(SubSeq(s, Min(at) + 1, Len(s)), sep)

\* strings.TrimSpace(s)
TrimSpace(s) ==
    LET keep == {i \in 1..Len(s) : s[i] \notin Space}
    IN  IF keep = {} THEN EmptyStr
        ELSE SubSeq(s, Min(keep), CHOOSE j \in keep : \A k \in keep : k <= j)

\* strings.ToUpper(s)
ToUpper(s) ==
    [i \in 1..Len(s) |->
        IF \E k \in 1..26 : Lower[k] = s[i]
        THEN Upper[CHOOSE k \in 1..26 : Lower[k] = s[i]]
        ELSE s[i]]

\* the decimal digits of n >= 0, as fmt's %d prints them
RECURSIVE Itoa(_)
Itoa(n) == IF n < 10 THEN <<Digits[n + 1]>>
           ELSE Itoa(n \div 10) \o <<Digits[(n % 10) + 1]>>

\* fmt's %02d for n >= 0
Pad2(n) == IF n < 10 THEN <<"0">> \o Itoa(n) ELSE Itoa(n)

(***************************************************************************)
(* Go's int: two's complement, IntBits wide.                               *)
(***************************************************************************)
MaxInt == 2 ^ (IntBits - 1) - 1

MinInt == 0 - 2 ^ (IntBits - 1)

\* the value an int holds after an addition whose exact result is x
Wrap(x) == ((x - MinInt) % (2 ^ IntBits)) + MinInt

\* the value of a digit string, clamped just above MaxInt
RECURSIVE DigitsValue(_)
DigitsValue(s) ==
    IF s = EmptyStr THEN 0
    ELSE LET hi == DigitsValue(SubSeq(s, 1, Len(s) - 1))
             v  == hi * 10 + DigitVal(s[Len(s)])
         IN  IF v > MaxInt + 1 THEN MaxInt + 1 ELSE v

\* the int strconv.Atoi(s) returns; the code drops the error, so a syntax
\* error yields 0 and a range error the nearest bound of int
Atoi(s) ==
    LET signed == s # EmptyStr /\ s[1] \in {"+", "-"}
        body   == IF signed THEN SubSeq(s, 2, Len(s)) ELSE s
        neg    == signed /\ s[1] = "-"
    IN  IF body = EmptyStr \/ \E i \in 1..Len(body) : ~IsDigit(body[i])
        THEN 0
        ELSE IF neg
             THEN 0 - DigitsValue(body)
             ELSE IF DigitsValue(body) > MaxInt THEN MaxInt
                  ELSE DigitsValue(body)

(***************************************************************************)
(* Calendar dates: time.Parse("2006-01-02", s), Time.Year, Time.Month,     *)
(* Time.ISOWeek.                                                           *)
(***************************************************************************)
IsLeap(y) == (y % 4 = 0) /\ ((y % 100 # 0) \/ (y % 400 = 0))

DaysIn(m, y) ==
    IF m = 2 THEN (IF IsLeap(y) THEN 29 ELSE 28)
    ELSE IF m \in {4, 6, 9, 11} THEN 30 ELSE 31

DaysInYear(y) == IF IsLeap(y) THEN 366 ELSE 365

\* [ok, year, month, day]: the layout wants four digits, '-', two digits,
\* '-', two digits and nothing else, a month in 1..12 and a day of that month
TimeParse(s) ==
    LET shape == /\ Len(s) = 10
                 /\ s[5] = "-" /\ s[8] = "-"
                 /\ \A i \in {1, 2, 3, 4, 6, 7, 9, 10} : IsDigit(s[i])
        y == DigitVal(s[1]) * 1000 + DigitVal(s[2]) * 100
               + DigitVal(s[3]) * 10 + DigitVal(s[4])
        m == DigitVal(s[6]) * 10 + DigitVal(s[7])
        d == DigitVal(s[9]) * 10 + DigitVal(s[10])
    IN  IF shape /\ m \in 1..12 /\ d >= 1 /\ d <= DaysIn(m, y)
        THEN [ok |-> TRUE, year |-> y, month |-> m, day |-> d]
        ELSE [ok |-> FALSE, year |-> 0, month |-> 0, day |-> 0]

\* Month.String()
MonthString(m) ==
    << <<"J","a","n","u","a","r","y">>, <<"F","e","b","r","u","a","r","y">>,
       <<"M","a","r","c","h">>, <<"A","p","r","i","l">>, <<"M","a","y">>,
       <<"J","u","n","e">>, <<"J","u","l","y">>, <<"A","u","g","u","s","t">>,
       <<"S","e","p","t","e","m","b","e","r">>,
       <<"O","c","t","o","b","e","r">>, <<"N","o","v","e","m","b","e","r">>,
       <<"D","e","c","e","m","b","e","r">> >>[m]

RECURSIVE DaysBeforeMonth(_, _)
DaysBeforeMonth(m, y) ==
    IF m = 1 THEN 0 ELSE DaysBeforeMonth(m - 1, y) + DaysIn(m - 1, y)

\* day of the year, from 0
YearDay(t) == DaysBeforeMonth(t.month, t.year) + t.day - 1

\* days from 0001-01-01, a Monday, to January 1st of year y
DaysBeforeYear(y) ==
    365 * (y - 1) + ((y - 1) \div 4) - ((y - 1) \div 100) + ((y - 1) \div 400)

\* Monday 1 .. Sunday 7
IsoWeekday(t) == ((DaysBeforeYear(t.year) + YearDay(t)) % 7) + 1

\* Time.ISOWeek(): the year and the week of the Thursday of t's week
ISOWeek(t) ==
    LET thu == YearDay(t) + (4 - IsoWeekday(t))
    IN  IF thu < 0
        THEN [year |-> t.year - 1,
              week |-> ((thu + DaysInYear(t.year - 1)) \div 7) + 1]
        ELSE IF thu >= DaysInYear(t.year)
             THEN [year |-> t.year + 1,
                   week |-> ((thu - DaysInYear(t.year)) \div 7) + 1]
             ELSE [year |-> t.year, week |-> (thu \div 7) + 1]

(***************************************************************************)
(* Configuration and inputs.                                               *)
(***************************************************************************)
\* var defaultMainBranchName string = "main"
defaultMainBranchName == <<"m", "a", "i", "n">>

\* the values the groupby flag accepts
GroupByModes == {"month", "week"}

\* the values of the filter flag the model runs with: none, and "go"
FileFilters == {EmptyStr, <<"g", "o">>}

\* entries of the output of `git branch` split at newlines: the main
\* branch, another branch padded with white space, and a blank entry
RawNames == {defaultMainBranchName, <<" ", "d", "e", "v">>, EmptyStr}

\* git names every branch once
BranchOutputs ==
    {out \in UNION {[1..n -> RawNames] : n \in 0..MaxBranches} :
        \A i, j \in 1..Len(out) :
            (i # j /\ TrimSpace(out[i]) # EmptyStr)
                => TrimSpace(out[i]) # TrimSpace(out[j])}

\* the output of a successful `git merge-base`
MergeBaseOutput == <<"c", "1", "\n">>

\* lines of the output of `git log` split at newlines
HdrA == <<"a","@","x",",","2","0","2","4","-","0","1","-","1","0",",","h">>

HdrB == <<"b","@","x",",","2","0","2","4","-","1","2","-","3","0",",","h">>

HdrBadDate == <<"a","@","x",",","2","0","2","4","-","0","2","-","3","0",",","h">>

HdrNoHash == <<"b","@","x",",","2","0","2","4","-","0","1","-","1","0",",">>

HdrShort == <<"a","@","x",",","y">>

StatNum == <<"3","\t","1","\t","f">>

StatBin == <<"-","\t","-","\t","f">>

StatBad == <<"x","\t","1","\t","f">>

StatNeg == <<"-","2","\t","5","\t","f">>

StatBig == <<"9","9","9","9","9","\t","1","\t","f">>

StatHalfBin == <<"-","\t","5","\t","f">>

StatTwo == <<"3","\t","1">>

Blank == EmptyStr

Lines == {HdrA, HdrB, HdrBadDate, HdrNoHash, HdrShort, StatNum, StatBin,
          StatHalfBin, StatBad, StatNeg, StatBig, StatTwo, Blank}

\* stands for "no line": the loop over linesLog has read none yet, or is
\* over (a line holds no newline)
NoLine == <<"\n">>

(***************************************************************************)
(* State.                                                                  *)
(***************************************************************************)
VARIABLES
    pc,                        \* position in analyzeGitHistoryByBranch
    ret,                       \* "running", "ok" (map, nil), "error" (nil, err)
    fileFilter,                \* parameter fileFilter
    defaultGroupByForLogDate,  \* the package variable of that name
    branchNames,               \* strings.Split(outputBranches, "\n")
    idx,                       \* position of the range loop in branchNames
    branchName,                \* the trimmed name of the branch in work
    logRange,
    branchReports,             \* branch name -> BranchReport
    currentCommit, currentDate, currentEmail,
    cmds,                      \* the git commands run so far, in order, each
                               \* with its exit status (ok)
    nLines,                    \* lines read from the log outputs so far
    lastLine,                  \* the loop variable line: the line read last
                               \* from the log output being parsed
    headerLines,               \* branch -> first field -> number of lines
                               \* read of the shape <email>,<date>,<hash>
    datedLines,                \* branch -> first field -> number of those
                               \* lines whose second field time.Parse takes
    reorder                    \* the parser run outside a run of the
                               \* program, on a log output and on the same
                               \* output with its commits in another order

vars == <<pc, ret, fileFilter, defaultGroupByForLogDate, branchNames, idx,
          branchName, logRange, branchReports, currentCommit, currentDate,
          currentEmail, cmds, nLines, lastLine, headerLines,
          datedLines, reorder>>

\* a map with no key
EmptyMap == <<>>

Put(f, k, v) == [x \in DOMAIN f \cup {k} |-> IF x = k THEN v ELSE f[x]]

\* reorder while the program runs: the parser is not run on its own
NoReorder ==
    [phase |-> "idle", stream |-> <<>>, shuffled |-> <<>>,
     given |-> EmptyMap, permuted |-> EmptyMap]

Init ==
    /\ pc = "start"
    /\ ret = "running"
    /\ fileFilter \in FileFilters
    /\ defaultGroupByForLogDate \in GroupByModes
    /\ branchNames = <<>>
    /\ idx = 1
    /\ branchName = EmptyStr
    /\ logRange = EmptyStr
    /\ branchReports = EmptyMap
    /\ currentCommit = EmptyStr
    /\ currentDate = EmptyStr
    /\ currentEmail = EmptyStr
    /\ cmds = <<>>
    /\ nLines = 0
    /\ lastLine = NoLine
    /\ headerLines = EmptyMap
    /\ datedLines = EmptyMap
    /\ reorder = NoReorder

(***************************************************************************)
(* The steps of the parser, as functions of the maps they change.          *)
(***************************************************************************)
\* &UserContribution{Email: ..., ContributionTimeline: make(map[string]int),
\*                   FileFilter: fileFilter}
NewContribution(email, filter) ==
    [Email |-> email, CommitCount |-> 0, ContributionTimeline |-> EmptyMap,
     LinesAdded |-> 0, LinesRemoved |-> 0, LinesEdited |-> 0,
     FileFilter |-> filter]

\* &BranchReport{BranchName: ..., Contributions: make(map[string]*UserContribution)}
NewBranchReport(name) == [BranchName |-> name, Contributions |-> EmptyMap]

\* m[key]++ on a map[string]int
Increment(m, key) ==
    IF key \in DOMAIN m THEN [m EXCEPT ![key] = Wrap(@ + 1)]
    ELSE Put(m, key, 1)

\* BucketKey with the month's full name (the line the code has commented
\* out) and no upper-casing
BucketKeyFullMonthName(groupBy, t) ==
    IF groupBy = "month"
    THEN Itoa(t.year) \o <<"-">> \o MonthString(t.month)
    ELSE Itoa(t.year) \o <<"-">> \o Pad2(ISOWeek(t).week)

\* the key under which a commit of date t is counted
BucketKey(groupBy, t) ==
    IF groupBy = "month"
    THEN ToUpper(Itoa(t.year) \o <<"-">> \o SubSeq(MonthString(t.month), 1, 3))
    ELSE Itoa(t.year) \o <<"-">> \o Pad2(ISOWeek(t).week)

\* ApplyHeader with the commit counted only when its date parses
ApplyHeaderCountsDatedOnly(contribs, parts, filter, groupBy) ==
    LET email   == parts[1]
        created == IF email \in DOMAIN contribs THEN contribs
                   ELSE Put(contribs, email, NewContribution(email, filter))
        t       == TimeParse(parts[2])
    IN  IF t.ok
        THEN [created EXCEPT ![email].CommitCount = Wrap(@ + 1),
                             ![email].ContributionTimeline =
                                 Increment(@, BucketKey(groupBy, t))]
        ELSE created

\* ApplyHeader with the error of time.Parse dropped: the zero Time it
\* returns with the error, January 1st of year 1, is put in a bucket
ApplyHeaderIgnoresDateError(contribs, parts, filter, groupBy) ==
    LET email   == parts[1]
        created == IF email \in DOMAIN contribs THEN contribs
                   ELSE Put(contribs, email, NewContribution(email, filter))
        counted == [created EXCEPT ![email].CommitCount = Wrap(@ + 1)]
        t       == TimeParse(parts[2])
        used    == IF t.ok THEN t
                   ELSE [ok |-> FALSE, year |-> 1, month |-> 1, day |-> 1]
    IN  [counted EXCEPT ![email].ContributionTimeline =
                            Increment(@, BucketKey(groupBy, used))]

\* the header with fields parts, applied to the Contributions of a branch
ApplyHeader(contribs, parts, filter, groupBy) ==
    LET email   == parts[1]
        created == IF email \in DOMAIN contribs THEN contribs
                   ELSE Put(contribs, email, NewContribution(email, filter))
        counted == [created EXCEPT ![email].CommitCount = Wrap(@ + 1)]
        t       == TimeParse(parts[2])
    IN  IF t.ok
        THEN [counted EXCEPT ![email].ContributionTimeline =
                                 Increment(@, BucketKey(groupBy, t))]
        ELSE counted

\* ApplyStat with LinesEdited raised by the added lines alone
ApplyStatEditedByAdded(contribs, email, parts) ==
    IF Len(parts) = 3 /\ parts[1] # <<"-">> /\ parts[2] # <<"-">>
    THEN LET added   == Atoi(parts[1])
             removed == Atoi(parts[2])
         IN  [contribs EXCEPT
                 ![email].LinesAdded   = Wrap(@ + added),
                 ![email].LinesRemoved = Wrap(@ + removed),
                 ![email].LinesEdited  = Wrap(@ + added)]
    ELSE contribs

\* ApplyStat without the test for the binary-file sentinel
ApplyStatNoSentinelTest(contribs, email, parts) ==
    IF Len(parts) = 3
    THEN LET added   == Atoi(parts[1])
             removed == Atoi(parts[2])
         IN  [contribs EXCEPT
                 ![email].LinesAdded   = Wrap(@ + added),
                 ![email].LinesRemoved = Wrap(@ + removed),
                 ![email].LinesEdited  = Wrap(@ + Wrap(added + removed))]
    ELSE contribs

\* the numstat line with fields parts, applied to the Contributions of a
\* branch on behalf of the current author
ApplyStat(contribs, email, parts) ==
    IF Len(parts) = 3 /\ parts[1] # <<"-">> /\ parts[2] # <<"-">>
    THEN LET added   == Atoi(parts[1])
             removed == Atoi(parts[2])
         IN  [contribs EXCEPT
                 ![email].LinesAdded   = Wrap(@ + added),
                 ![email].LinesRemoved = Wrap(@ + removed),
                 ![email].LinesEdited  = Wrap(@ + Wrap(added + removed))]
    ELSE contribs

\* whether the loop body takes a line for a commit header
HeaderGate(line) == Contains(line, "@") /\ Contains(line, ",")

\* whether the loop body takes a line that is no header for a numstat line
StatGate(line, commit) == Contains(line, "\t") /\ commit # EmptyStr

\* ParseStep in which a header whose date does not parse is passed over
\* whole: it is not counted and currentEmail, currentDate and currentCommit
\* keep the values of the commit before it
ParseStepSkipsUndated(st, line, filter, groupBy) ==
    IF HeaderGate(line)
    THEN LET parts == Split(line, ",")
         IN  IF Len(parts) >= 3 /\ TimeParse(parts[2]).ok
             THEN [contribs |-> ApplyHeader(st.contribs, parts, filter,
                                            groupBy),
                   email    |-> parts[1],
                   date     |-> parts[2],
                   commit   |-> parts[3]]
             ELSE st
    ELSE IF StatGate(line, st.commit)
         THEN [st EXCEPT !.contribs =
                             ApplyStat(@, st.email, Split(line, "\t"))]
         ELSE st

\* the body of the loop over linesLog: from the Contributions of the branch
\* and currentEmail, currentDate, currentCommit before a line to those after
ParseStep(st, line, filter, groupBy) ==
    IF HeaderGate(line)
    THEN LET parts == Split(line, ",")
         IN  IF Len(parts) >= 3
             THEN [contribs |-> ApplyHeader(st.contribs, parts, filter,
                                            groupBy),
                   email    |-> parts[1],
                   date     |-> parts[2],
                   commit   |-> parts[3]]
             ELSE st
    ELSE IF StatGate(line, st.commit)
         THEN [st EXCEPT !.contribs =
                             ApplyStat(@, st.email, Split(line, "\t"))]
         ELSE st

\* the loop over linesLog run on a whole output, for a branch with no
\* record yet and with fresh currentEmail, currentDate and currentCommit
RECURSIVE ParseStream(_, _, _)
ParseStream(lines, filter, groupBy) ==
    IF Len(lines) = 0
    THEN [contribs |-> EmptyMap, email |-> EmptyStr, date |-> EmptyStr,
          commit |-> EmptyStr]
    ELSE ParseStep(ParseStream(SubSeq(lines, 1, Len(lines) - 1), filter,
                               groupBy),
                   lines[Len(lines)], filter, groupBy)

\* LogArgs with the range used for the revision also without a filter
LogArgsAlwaysRange(name, range, filter) == [rev |-> range, path |-> filter]

\* the revision and path arguments of the `git log` command of a branch
LogArgs(name, range, filter) ==
    IF filter # EmptyStr
    THEN [rev |-> range, path |-> filter]
    ELSE [rev |-> name, path |-> EmptyStr]

\* the range of a branch whose merge base was found
RangeFrom(output, name) == TrimSpace(output) \o <<".", ".">> \o name

\* RemoveEmpty that removes nothing
RemoveEmptyKeepsAll(reports) == reports

\* RemoveEmpty that first drops the authors without a counted line
RemoveEmptyDropsIdleAuthors(reports) ==
    LET busy(b) == {a \in DOMAIN reports[b].Contributions :
                       reports[b].Contributions[a].LinesEdited # 0}
    IN  [b \in {n \in DOMAIN reports : busy(n) # {}}
            |-> [reports[b] EXCEPT
                    !.Contributions =
                        [a \in busy(b) |-> reports[b].Contributions[a]]]]

\* "Remove empty branch reports"
RemoveEmpty(reports) ==
    [b \in {n \in DOMAIN reports : DOMAIN reports[n].Contributions # {}}
        |-> reports[b]]

\* a line of the shape <email>,<date>,<hash>: it holds '@' and ',' and has
\* three comma-separated fields or more
IsCommitHeader(line) ==
    /\ \E i \in 1..Len(line) : line[i] = "@"
    /\ Cardinality({i \in 1..Len(line) : line[i] = ","}) >= 2

\* the text of a line before its first comma
FirstField(line) ==
    SubSeq(line, 1, Min({i \in 1..Len(line) : line[i] = ","}) - 1)

\* whether time.Parse takes the text between the first two commas of a
\* line of the shape <email>,<date>,<hash>
HasDate(line) ==
    LET P  == {i \in 1..Len(line) : line[i] = ","}
        c1 == Min(P)
        c2 == Min(P \ {c1})
    IN  TimeParse(SubSeq(line, c1 + 1, c2 - 1)).ok

\* one more line counted for key in a tally
Tally(m, key) ==
    IF key \in DOMAIN m THEN [m EXCEPT ![key] = @ + 1] ELSE Put(m, key, 1)

(***************************************************************************)
(* Actions.                                                                *)
(***************************************************************************)
\* exec.Command("git", "branch", ...) and its exit status
BranchCmd(ok) == [cmd |-> "branch", ok |-> ok]

\* exec.Command("git", "merge-base", defaultMainBranchName, branchName)
MergeBaseCmd(name, ok) ==
    [cmd |-> "merge-base", main |-> defaultMainBranchName, branch |-> name,
     ok |-> ok]

\* exec.Command("git", "log", ..., rev [, "--", path]) for a branch
LogCmd(name, range, filter, ok) ==
    [cmd |-> "log", branch |-> name, rev |-> LogArgs(name, range, filter).rev,
     path |-> LogArgs(name, range, filter).path, ok |-> ok]

\* ListBranchesFail that logs the error and goes on with no branch
ListBranchesFailGoesOn ==
    /\ pc = "start"
    /\ cmds' = Append(cmds, BranchCmd(FALSE))
    /\ branchReports' = EmptyMap
    /\ idx' = 1
    /\ pc' = "loop"
    /\ UNCHANGED <<ret, fileFilter, defaultGroupByForLogDate, branchNames,
                   branchName, logRange, currentCommit, currentDate,
                   currentEmail, nLines, lastLine, headerLines,
                   datedLines, reorder>>

\* `git branch` fails: return nil and the error
ListBranchesFail ==
    /\ pc = "start"
    /\ cmds' = Append(cmds, BranchCmd(FALSE))
    /\ pc' = "done"
    /\ ret' = "error"
    /\ UNCHANGED <<fileFilter, defaultGroupByForLogDate, branchNames, idx,
                   branchName, logRange, branchReports, currentCommit,
                   currentDate, currentEmail, nLines, lastLine, headerLines,
                   datedLines, reorder>>

\* `git branch` succeeds: split its output and make the result map
ListBranchesOk ==
    /\ pc = "start"
    /\ \E out \in BranchOutputs : branchNames' = out
    /\ cmds' = Append(cmds, BranchCmd(TRUE))
    /\ branchReports' = EmptyMap
    /\ idx' = 1
    /\ pc' = "loop"
    /\ UNCHANGED <<ret, fileFilter, defaultGroupByForLogDate, branchName,
                   logRange, currentCommit, currentDate, currentEmail,
                   nLines, lastLine, headerLines,
                   datedLines, reorder>>

\* a blank entry: continue
SkipBlank ==
    /\ pc = "loop"
    /\ idx <= Len(branchNames)
    /\ TrimSpace(branchNames[idx]) = EmptyStr
    /\ branchName' = EmptyStr
    /\ idx' = idx + 1
    /\ UNCHANGED <<pc, ret, fileFilter, defaultGroupByForLogDate, branchNames,
                   logRange, branchReports, currentCommit, currentDate,
                   currentEmail, cmds, nLines, lastLine, headerLines,
                   datedLines, reorder>>

\* the part of the loop body from the trimmed name to the log command ready
\* to run, given the range and the commands run on the way
EnterBranch(name, range, ran) ==
    /\ branchName' = name
    /\ logRange' = range
    /\ branchReports' = Put(branchReports, name, NewBranchReport(name))
    /\ headerLines' = Put(headerLines, name, EmptyMap)
    /\ datedLines' = Put(datedLines, name, EmptyMap)
    /\ cmds' = cmds \o ran
    /\ pc' = "log"
    /\ UNCHANGED <<ret, fileFilter, defaultGroupByForLogDate, branchNames,
                   idx, currentCommit, currentDate, currentEmail, nLines,
                   lastLine, reorder>>

\* BeginMain that looks the merge base up for the main branch too
BeginMainLooksUp ==
    /\ pc = "loop"
    /\ idx <= Len(branchNames)
    /\ LET name == TrimSpace(branchNames[idx])
       IN  /\ name # EmptyStr
           /\ name = defaultMainBranchName
           /\ EnterBranch(name, RangeFrom(MergeBaseOutput, name),
                          <<MergeBaseCmd(name, TRUE)>>)

\* the main branch: no merge base is looked up
BeginMain ==
    /\ pc = "loop"
    /\ idx <= Len(branchNames)
    /\ LET name == TrimSpace(branchNames[idx])
       IN  /\ name # EmptyStr
           /\ name = defaultMainBranchName
           /\ EnterBranch(name, name, <<>>)

\* another branch, and `git merge-base` succeeds
MergeBaseOk ==
    /\ pc = "loop"
    /\ idx <= Len(branchNames)
    /\ LET name == TrimSpace(branchNames[idx])
       IN  /\ name # EmptyStr
           /\ name # defaultMainBranchName
           /\ EnterBranch(name, RangeFrom(MergeBaseOutput, name),
                          <<MergeBaseCmd(name, TRUE)>>)

\* MergeBaseFail that gives the branch up and goes on to the next entry
MergeBaseFailSkipsBranch ==
    /\ pc = "loop"
    /\ idx <= Len(branchNames)
    /\ LET name == TrimSpace(branchNames[idx])
       IN  /\ name # EmptyStr
           /\ name # defaultMainBranchName
           /\ branchName' = name
           /\ cmds' = Append(cmds, MergeBaseCmd(name, FALSE))
    /\ idx' = idx + 1
    /\ UNCHANGED <<pc, ret, fileFilter, defaultGroupByForLogDate, branchNames,
                   logRange, branchReports, currentCommit, currentDate,
                   currentEmail, nLines, lastLine, headerLines,
                   datedLines, reorder>>

\* another branch, and `git merge-base` fails: the range stays the name
MergeBaseFail ==
    /\ pc = "loop"
    /\ idx <= Len(branchNames)
    /\ LET name == TrimSpace(branchNames[idx])
       IN  /\ name # EmptyStr
           /\ name # defaultMainBranchName
           /\ EnterBranch(name, name, <<MergeBaseCmd(name, FALSE)>>)

\* LogFail that returns the error of the log command
LogFailReturnsError ==
    /\ pc = "log"
    /\ cmds' = Append(cmds, LogCmd(branchName, logRange, fileFilter, FALSE))
    /\ pc' = "done"
    /\ ret' = "error"
    /\ UNCHANGED <<fileFilter, defaultGroupByForLogDate, branchNames, idx,
                   branchName, logRange, branchReports, currentCommit,
                   currentDate, currentEmail, nLines, lastLine, headerLines,
                   datedLines, reorder>>

\* `git log` fails: continue with the next entry
LogFail ==
    /\ pc = "log"
    /\ cmds' = Append(cmds, LogCmd(branchName, logRange, fileFilter, FALSE))
    /\ idx' = idx + 1
    /\ pc' = "loop"
    /\ UNCHANGED <<ret, fileFilter, defaultGroupByForLogDate, branchNames,
                   branchName, logRange, branchReports, currentCommit,
                   currentDate, currentEmail, nLines, lastLine, headerLines,
                   datedLines, reorder>>

\* LogOk with currentCommit, currentDate and currentEmail declared outside
\* the loop over the branches: they keep what the last branch left in them
LogOkKeepsContext ==
    /\ pc = "log"
    /\ nLines < MaxLines
    /\ cmds' = Append(cmds, LogCmd(branchName, logRange, fileFilter, TRUE))
    /\ lastLine' = NoLine
    /\ pc' = "parse"
    /\ UNCHANGED <<ret, fileFilter, defaultGroupByForLogDate, branchNames,
                   idx, branchName, logRange, branchReports, currentCommit,
                   currentDate, currentEmail, nLines, headerLines,
                   datedLines, reorder>>

\* `git log` succeeds: the parser starts on its output with fresh
\* currentCommit, currentDate and currentEmail
LogOk ==
    /\ pc = "log"
    /\ nLines < MaxLines
    /\ cmds' = Append(cmds, LogCmd(branchName, logRange, fileFilter, TRUE))
    /\ currentCommit' = EmptyStr
    /\ currentDate' = EmptyStr
    /\ currentEmail' = EmptyStr
    /\ lastLine' = NoLine
    /\ pc' = "parse"
    /\ UNCHANGED <<ret, fileFilter, defaultGroupByForLogDate, branchNames,
                   idx, branchName, logRange, branchReports, nLines,
                   headerLines,
                   datedLines, reorder>>

\* one pass of the loop over linesLog
ParseLine(line) ==
    /\ pc = "parse"
    /\ nLines < MaxLines
    /\ nLines' = nLines + 1
    /\ lastLine' = line
    /\ \E st \in {ParseStep([contribs |->
                                   branchReports[branchName].Contributions,
                               email    |-> currentEmail,
                               date     |-> currentDate,
                               commit   |-> currentCommit],
                              line, fileFilter, defaultGroupByForLogDate)} :
           /\ currentEmail' = st.email
           /\ currentDate' = st.date
           /\ currentCommit' = st.commit
           /\ branchReports' =
                [branchReports EXCEPT ![branchName].Contributions =
                                          st.contribs]
    /\ headerLines' =
         IF IsCommitHeader(line)
         THEN [headerLines EXCEPT ![branchName] = Tally(@, FirstField(line))]
         ELSE headerLines
    /\ datedLines' =
         IF IsCommitHeader(line) /\ HasDate(line)
         THEN [datedLines EXCEPT ![branchName] = Tally(@, FirstField(line))]
         ELSE datedLines
    /\ UNCHANGED <<pc, ret, fileFilter, defaultGroupByForLogDate, branchNames,
                   idx, branchName, logRange, cmds, reorder>>

\* the output of `git log` is read to its end (it has a line at least)
EndStream ==
    /\ pc = "parse"
    /\ lastLine # NoLine
    /\ idx' = idx + 1
    /\ lastLine' = NoLine
    /\ pc' = "loop"
    /\ UNCHANGED <<ret, fileFilter, defaultGroupByForLogDate, branchNames,
                   branchName, logRange, branchReports, currentCommit,
                   currentDate, currentEmail, cmds, nLines, headerLines,
                   datedLines, reorder>>

\* the range loop is over: remove the empty reports and return the map
Finish ==
    /\ pc = "loop"
    /\ idx > Len(branchNames)
    /\ branchReports' = RemoveEmpty(branchReports)
    /\ pc' = "done"
    /\ ret' = "ok"
    /\ UNCHANGED <<fileFilter, defaultGroupByForLogDate, branchNames, idx,
                   branchName, logRange, currentCommit, currentDate,
                   currentEmail, cmds, nLines, lastLine, headerLines,
                   datedLines, reorder>>

Next ==
    \/ ListBranchesFail
    \/ ListBranchesOk
    \/ SkipBlank
    \/ BeginMain
    \/ MergeBaseOk
    \/ MergeBaseFail
    \/ LogFail
    \/ LogOk
    \/ \E line \in Lines : ParseLine(line)
    \/ EndStream
    \/ Finish

Spec == Init /\ [][Next]_vars

(***************************************************************************)
(* Vocabulary of the properties: the shapes of lines as the design         *)
(* describes them, read off the text of a line.                            *)
(***************************************************************************)
AuthorA == <<"a", "@", "x">>

DevBranch == <<"d", "e", "v">>

\* the k-th position, from the left, of the positions P
Kth(P, k) == CHOOSE i \in P : Cardinality({j \in P : j < i}) = k - 1

\* the k-th field of a line whose fields are separated by sep
Field(line, sep, k) ==
    LET P  == {i \in 1..Len(line) : line[i] = sep}
        lo == IF k = 1 THEN 0 ELSE Kth(P, k - 1)
        hi == IF k > Cardinality(P) THEN Len(line) + 1 ELSE Kth(P, k)
    IN  SubSeq(line, lo + 1, hi - 1)

\* a line the parser does not read as a header and that has the three
\* tab-separated fields <added> <removed> <path>
IsChangeStat(line) ==
    /\ ~(\E i \in 1..Len(line) : line[i] = "@")
         \/ ~(\E i \in 1..Len(line) : line[i] = ",")
    /\ Cardinality({i \in 1..Len(line) : line[i] = "\t"}) = 2

\* the decimal value of a string of digits
RECURSIVE Decimal(_)
Decimal(f) ==
    IF Len(f) = 0 THEN 0
    ELSE 10 * Decimal(SubSeq(f, 1, Len(f) - 1))
           + (CHOOSE d \in 0..9 : Digits[d + 1] = f[Len(f)])

\* a field that is a non-negative decimal number an int holds
IsNumeric(f) ==
    /\ Len(f) > 0
    /\ \A i \in 1..Len(f) : \E d \in 1..10 : Digits[d] = f[i]
    /\ Decimal(f) <= MaxInt

\* the marker git prints for the counts of a binary file
Sentinel == <<"-">>

\* a change-stat line with numeric added and removed fields
IsNumericStat(line) ==
    /\ IsChangeStat(line)
    /\ IsNumeric(Field(line, "\t", 1))
    /\ IsNumeric(Field(line, "\t", 2))

\* a change-stat line one of whose counts is the sentinel
IsSentinelStat(line) ==
    /\ IsChangeStat(line)
    /\ Field(line, "\t", 1) = Sentinel \/ Field(line, "\t", 2) = Sentinel

\* the step read one line of the log output of the branch in work; the
\* line is lastLine'
LineStep == pc = "parse" /\ nLines' = nLines + 1

\* the records of the branch in work, before and after a step
Records == branchReports[branchName].Contributions

RecordsAfter == branchReports'[branchName].Contributions

\* the sum the code would find for LinesAdded + LinesRemoved of a record
SumOf(r) == Wrap(r.LinesAdded + r.LinesRemoved)

\* the parser is inside a commit: the gate of the numstat lines is open
InCommit == currentCommit # EmptyStr

(***************************************************************************)
(* C1: for every branch and every author, CommitCount equals the number of *)
(* lines of the branch's stream that hold '@' and ',' and have three or    *)
(* more comma-separated fields and whose first field is that author, be    *)
(* the date of the line parsable or not and stat lines following or not;   *)
(* an author without such a line has no record.                            *)
(***************************************************************************)
C1_CommitCountIsHeaderCount ==
    \A b \in DOMAIN branchReports :
        LET c == branchReports[b].Contributions
        IN  /\ DOMAIN c = DOMAIN headerLines[b]
            /\ \A a \in DOMAIN c : c[a].CommitCount = headerLines[b][a]

\* a stream is parsed to its end in which a@x had two headers, one of them
\* with a date that does not parse, and no stat line
C1_Witness ==
    /\ pc = "loop"
    /\ branchName \in DOMAIN branchReports
    /\ AuthorA \in DOMAIN Records
    /\ Records[AuthorA].CommitCount = 2
    /\ Records[AuthorA].LinesEdited = 0
    /\ \E k \in DOMAIN Records[AuthorA].ContributionTimeline :
          /\ DOMAIN Records[AuthorA].ContributionTimeline = {k}
          /\ Records[AuthorA].ContributionTimeline[k] = 1

(***************************************************************************)
(* C2: a change-stat line with numeric added and removed fields read       *)
(* inside a commit raises the current author's LinesAdded and LinesRemoved *)
(* by the values of the fields and LinesEdited by their sum, and           *)
(* LinesEdited == LinesAdded + LinesRemoved holds (in int arithmetic) for  *)
(* every record of every branch before and after every step.               *)
(***************************************************************************)
C2_EditedIsSum(reports) ==
    \A b \in DOMAIN reports :
        \A a \in DOMAIN reports[b].Contributions :
            reports[b].Contributions[a].LinesEdited
                = SumOf(reports[b].Contributions[a])

C2_StatStep ==
    (LineStep /\ InCommit /\ IsNumericStat(lastLine'))
        => LET old   == Records[currentEmail]
               new   == RecordsAfter[currentEmail]
               added == Decimal(Field(lastLine', "\t", 1))
               rmvd  == Decimal(Field(lastLine', "\t", 2))
           IN  /\ new.LinesAdded = Wrap(old.LinesAdded + added)
               /\ new.LinesRemoved = Wrap(old.LinesRemoved + rmvd)
               /\ new.LinesEdited = Wrap(old.LinesEdited + Wrap(added + rmvd))

\* C2: every step keeps LinesEdited == LinesAdded + LinesRemoved in every
\* record, and a numeric stat line read inside a commit raises the three
\* counters of the current author by its values and their sum
C2_LinesEditedIsSum ==
    [][/\ C2_EditedIsSum(branchReports)
       /\ C2_EditedIsSum(branchReports')
       /\ C2_StatStep]_vars

\* the scenario of the design: a header of a@x, then "3\t1\tf"
C2_Witness ==
    /\ pc = "parse"
    /\ lastLine = StatNum
    /\ AuthorA \in DOMAIN Records
    /\ Records[AuthorA].CommitCount = 1
    /\ Records[AuthorA].LinesAdded = 3
    /\ Records[AuthorA].LinesRemoved = 1
    /\ Records[AuthorA].LinesEdited = 4

(***************************************************************************)
(* C3: a change-stat line whose added or removed field is the binary-file  *)
(* sentinel leaves every counter of every author in every branch and the   *)
(* parser's current author, date and commit as they were before the line.  *)
(***************************************************************************)
C3_SentinelChangesNothing ==
    [][(LineStep /\ IsSentinelStat(lastLine'))
          => UNCHANGED <<branchReports, currentEmail, currentDate,
                         currentCommit>>]_vars

\* a sentinel line is read inside a commit whose author has counted lines
C3_Witness ==
    /\ pc = "parse"
    /\ IsSentinelStat(lastLine)
    /\ InCommit
    /\ Records[currentEmail].LinesRemoved > 0

(***************************************************************************)
(* C4: every BranchReport of the returned map has at least one author; a   *)
(* branch whose log command failed or whose stream held no commit header   *)
(* is not in the returned map.                                             *)
(***************************************************************************)
C4_NoEmptyReportReturned ==
    (pc = "done" /\ ret = "ok")
        => /\ \A b \in DOMAIN branchReports :
                 DOMAIN branchReports[b].Contributions # {}
           /\ \A i \in 1..Len(cmds) :
                 (cmds[i].cmd = "log" /\ ~cmds[i].ok)
                     => cmds[i].branch \notin DOMAIN branchReports
           /\ \A b \in DOMAIN headerLines :
                 DOMAIN headerLines[b] = {} => b \notin DOMAIN branchReports

\* a run returns one branch with an author, having dropped a branch whose
\* log command failed
C4_Witness ==
    /\ pc = "done"
    /\ ret = "ok"
    /\ DOMAIN branchReports # {}
    /\ \E i \in 1..Len(cmds) : cmds[i].cmd = "log" /\ ~cmds[i].ok

(***************************************************************************)
(* Vocabulary of the properties about the commands of a run.               *)
(***************************************************************************)
\* the step ran a command; the command is the last of cmds'
CmdStep == Len(cmds') = Len(cmds) + 1

LastCmd == cmds'[Len(cmds')]

\* the branches of the log commands, in the order the commands ran
LogBranches(cs) ==
    LET logs == SelectSeq(cs, LAMBDA c : c.cmd = "log")
    IN  [i \in 1..Len(logs) |-> logs[i].branch]

\* the enumerated entries that name a branch, trimmed, in their order
NamedBranches(entries) ==
    LET named == SelectSeq(entries,
                           LAMBDA e : \E i \in 1..Len(e) : e[i] \notin Space)
    IN  [i \in 1..Len(named) |-> TrimSpace(named[i])]

\* the range the design resolves for the branch of the command cs[i]: the
\* ancestor found by the merge-base command just before it, "..", and the
\* branch; the branch alone when there was no such command or it failed
ResolvedRange(cs, i) ==
    IF /\ i > 1
       /\ cs[i - 1].cmd = "merge-base"
       /\ cs[i - 1].branch = cs[i].branch
       /\ cs[i - 1].ok
    THEN <<"c", "1", ".", ".">> \o cs[i].branch
    ELSE cs[i].branch

(***************************************************************************)
(* C5: when the log command of a branch fails the run goes on to the next  *)
(* entry and returns without error; the step changes no report, the        *)
(* report of the failing branch is empty and absent from the returned map, *)
(* entering a branch changes no other branch's report, and the log         *)
(* commands of a finished run are those of all the enumerated branches in  *)
(* enumeration order.                                                      *)
(***************************************************************************)
C5_Step ==
    /\ (CmdStep /\ LastCmd.cmd = "log" /\ ~LastCmd.ok)
          => /\ ret' = "running"
             /\ pc' = "loop"
             /\ idx' = idx + 1
             /\ branchReports' = branchReports
             /\ DOMAIN branchReports[LastCmd.branch].Contributions = {}
    /\ (pc = "loop" /\ pc' = "log")
          => \A b \in DOMAIN branchReports \ {branchName'} :
                 /\ b \in DOMAIN branchReports'
                 /\ branchReports'[b] = branchReports[b]
    /\ (pc' = "done" /\ cmds'[1].ok)
          => /\ ret' = "ok"
             /\ LogBranches(cmds') = NamedBranches(branchNames')
             /\ \A i \in 1..Len(cmds') :
                   (cmds'[i].cmd = "log" /\ ~cmds'[i].ok)
                       => cmds'[i].branch \notin DOMAIN branchReports'

\* C5: a failing log command skips its branch and nothing else, in every
\* step of every run
C5_LogFailureSkipsBranch == [][C5_Step]_vars

\* the log command of main failed, dev was then queried and parsed, and the
\* run returned dev's report only
C5_Witness ==
    /\ pc = "done"
    /\ ret = "ok"
    /\ Len(cmds) = 4
    /\ cmds[2].cmd = "log" /\ cmds[2].branch = defaultMainBranchName
    /\ ~cmds[2].ok
    /\ cmds[4].cmd = "log" /\ cmds[4].branch = DevBranch /\ cmds[4].ok
    /\ DOMAIN branchReports = {DevBranch}

(***************************************************************************)
(* C6: when the merge-base lookup of a branch B fails the run goes on: the *)
(* range of B is B alone, the next command is the log query of B (with B   *)
(* for its revision), and B is parsed and reported like any branch.        *)
(***************************************************************************)
C6_MergeBaseFailureFallsBack ==
    \A i \in 1..Len(cmds) :
        (cmds[i].cmd = "merge-base" /\ ~cmds[i].ok)
            => IF i = Len(cmds)
               THEN /\ pc = "log"
                    /\ ret = "running"
                    /\ branchName = cmds[i].branch
                    /\ logRange = cmds[i].branch
                    /\ branchName \in DOMAIN branchReports
               ELSE /\ cmds[i + 1].cmd = "log"
                    /\ cmds[i + 1].branch = cmds[i].branch
                    /\ cmds[i + 1].rev = cmds[i].branch
                    /\ cmds[i + 1].path = fileFilter

\* with a filter set, the merge-base lookup of dev failed, its log was
\* queried on dev alone, and the returned map holds dev with a commit
C6_Witness ==
    /\ pc = "done"
    /\ ret = "ok"
    /\ fileFilter # EmptyStr
    /\ \E i \in 1..Len(cmds) :
          /\ cmds[i].cmd = "merge-base" /\ ~cmds[i].ok
          /\ cmds[i].branch = DevBranch
    /\ DevBranch \in DOMAIN branchReports
    /\ \E a \in DOMAIN branchReports[DevBranch].Contributions :
          branchReports[DevBranch].Contributions[a].CommitCount >= 1

HeaderDate(line) == TimeParse(Field(line, ",", 2))

\* the count of a timeline under a key, 0 when the key is absent
CountAt(timeline, key) == IF key \in DOMAIN timeline THEN timeline[key] ELSE 0

\* the timeline of an author in a map of records, empty when there is no
\* record
TimelineOf(records, a) ==
    IF a \in DOMAIN records THEN records[a].ContributionTimeline ELSE EmptyMap

\* the ISO-8601 week-year, '-', and the two-digit ISO week of a date
IsoWeekKey(t) == Itoa(ISOWeek(t).year) \o <<"-">> \o Pad2(ISOWeek(t).week)

(***************************************************************************)
(* C8: in week mode, a header whose date parses raises by one the timeline *)
(* count of its author under the key made of the ISO-8601 week-year, '-',  *)
(* and the two-digit ISO week of the date.                                 *)
(***************************************************************************)
C8_WeekKeyUsesIsoWeekYear ==
    [][(/\ LineStep
        /\ defaultGroupByForLogDate = "week"
        /\ IsCommitHeader(lastLine')
        /\ HeaderDate(lastLine').ok)
          => LET a   == Field(lastLine', ",", 1)
                 key == IsoWeekKey(HeaderDate(lastLine'))
             IN  CountAt(TimelineOf(RecordsAfter, a), key)
                    = CountAt(TimelineOf(Records, a), key) + 1]_vars

(***************************************************************************)
(* C9: a header whose date does not parse as a calendar date YYYY-MM-DD    *)
(* still creates the record of its author if missing, raises CommitCount   *)
(* by one and sets the current author, date and commit, and it adds or     *)
(* changes no timeline entry of any author of any branch.                  *)
(***************************************************************************)
C9_Step ==
    (LineStep /\ IsCommitHeader(lastLine') /\ ~HeaderDate(lastLine').ok)
        => LET a == Field(lastLine', ",", 1)
           IN  /\ a \in DOMAIN RecordsAfter
               /\ RecordsAfter[a].CommitCount
                     = (IF a \in DOMAIN Records
                        THEN Records[a].CommitCount ELSE 0) + 1
               /\ currentEmail' = a
               /\ currentDate' = Field(lastLine', ",", 2)
               /\ currentCommit' = Field(lastLine', ",", 3)
               /\ DOMAIN branchReports' = DOMAIN branchReports
               /\ \A b \in DOMAIN branchReports' :
                     \A x \in DOMAIN branchReports'[b].Contributions :
                         LET after  == TimelineOf(
                                         branchReports'[b].Contributions, x)
                             before == TimelineOf(
                                         branchReports[b].Contributions, x)
                         IN  /\ DOMAIN after = DOMAIN before
                             /\ \A k \in DOMAIN after : after[k] = before[k]

\* C9: a header with a date that does not parse is counted and sets the
\* parser's context, and touches no timeline, in every step of every run
C9_BadDateCountsWithoutBucket == [][C9_Step]_vars

\* a@x's only header had a date that does not parse: the commit is counted,
\* the stat line after it is added to a@x, and a@x has no timeline entry
C9_Witness ==
    /\ pc = "parse"
    /\ lastLine = StatNum
    /\ AuthorA \in DOMAIN Records
    /\ Records[AuthorA].CommitCount = 1
    /\ Records[AuthorA].LinesAdded = 3
    /\ DOMAIN Records[AuthorA].ContributionTimeline = {}

(***************************************************************************)
(* C10: a change-stat line with numeric fields is applied if and only if a *)
(* commit header was read earlier in the same stream: before the first     *)
(* header it changes nothing, and after any header it is added to the      *)
(* author of the most recent header, also when the third field of that     *)
(* header is empty.                                                        *)
(***************************************************************************)
C10_StatAppliedIffHeaderSeen ==
    [][(LineStep /\ IsNumericStat(lastLine'))
          => IF DOMAIN headerLines[branchName] = {}
             THEN branchReports' = branchReports
             ELSE LET added == Decimal(Field(lastLine', "\t", 1))
                      rmvd  == Decimal(Field(lastLine', "\t", 2))
                  IN  /\ RecordsAfter[currentEmail].LinesAdded
                            = Wrap(Records[currentEmail].LinesAdded + added)
                      /\ RecordsAfter[currentEmail].LinesRemoved
                            = Wrap(Records[currentEmail].LinesRemoved + rmvd)]_vars

(***************************************************************************)
(* C11: on a change-stat line without the sentinel read inside a commit, a *)
(* field that does not parse as an integer (text that is no number, the    *)
(* empty string, a number an int does not hold) adds nothing to its        *)
(* counter and the parse goes on; LinesAdded and LinesRemoved of every     *)
(* record are never negative and never decrease.                           *)
(***************************************************************************)
\* a decimal number, with or without a sign, that an int holds
ParsesAsInt(f) ==
    LET signed == Len(f) > 0 /\ f[1] \in {"+", "-"}
        body   == IF signed THEN SubSeq(f, 2, Len(f)) ELSE f
    IN  /\ Len(body) > 0
        /\ \A i \in 1..Len(body) : \E d \in 1..10 : Digits[d] = body[i]
        /\ Decimal(body) <= MaxInt

C11_Step ==
    /\ (/\ LineStep
        /\ InCommit
        /\ IsChangeStat(lastLine')
        /\ ~IsSentinelStat(lastLine'))
          => /\ pc' = "parse"
             /\ ~ParsesAsInt(Field(lastLine', "\t", 1))
                   => RecordsAfter[currentEmail].LinesAdded
                         = Records[currentEmail].LinesAdded
             /\ ~ParsesAsInt(Field(lastLine', "\t", 2))
                   => RecordsAfter[currentEmail].LinesRemoved
                         = Records[currentEmail].LinesRemoved
    /\ LineStep
          => \A a \in DOMAIN Records :
                 /\ RecordsAfter[a].LinesAdded >= Records[a].LinesAdded
                 /\ RecordsAfter[a].LinesRemoved >= Records[a].LinesRemoved
                 /\ RecordsAfter[a].LinesAdded >= 0
                 /\ RecordsAfter[a].LinesRemoved >= 0

\* C11: fields that do not parse add nothing, and the line counters are
\* never negative and never decrease, in every step of every run
C11_UnparsedFieldsAddZero == [][C11_Step]_vars

(***************************************************************************)
(* C12: when the branch enumeration fails the function returns the error   *)
(* and no map at once: `git branch` is the only command run, no merge-base *)
(* and no log query follows, and no BranchReport exists.                   *)
(***************************************************************************)
C12_EnumerationFailureIsFatal ==
    (Len(cmds) >= 1 /\ ~cmds[1].ok)
        => /\ pc = "done"
           /\ ret = "error"
           /\ cmds = <<BranchCmd(FALSE)>>
           /\ branchNames = <<>>
           /\ DOMAIN branchReports = {}

\* `git branch` has failed
C12_Witness ==
    /\ Len(cmds) = 1
    /\ cmds[1].cmd = "branch"
    /\ ~cmds[1].ok
    /\ ret = "error"

(***************************************************************************)
(* C13: in month mode, a header whose date parses raises by one the        *)
(* timeline count of its author under the key made of the calendar year,   *)
(* '-', and the first three letters of the English month name in upper     *)
(* case; no other count of any author of any branch changes.               *)
(***************************************************************************)
MonthAbbrev ==
    << <<"J","A","N">>, <<"F","E","B">>, <<"M","A","R">>, <<"A","P","R">>,
       <<"M","A","Y">>, <<"J","U","N">>, <<"J","U","L">>, <<"A","U","G">>,
       <<"S","E","P">>, <<"O","C","T">>, <<"N","O","V">>, <<"D","E","C">> >>

MonthKey(t) == Itoa(t.year) \o <<"-">> \o MonthAbbrev[t.month]

\* the timeline counts of reports `after` are those of `before`, but for
\* one more under key for author a of branch b
OneBucketRaised(before, after, b, a, key) ==
    /\ DOMAIN after = DOMAIN before
    /\ \A c \in DOMAIN after :
          \A x \in DOMAIN after[c].Contributions :
              LET new == TimelineOf(after[c].Contributions, x)
                  old == TimelineOf(before[c].Contributions, x)
              IN  \A k \in DOMAIN new \cup DOMAIN old \cup {key} :
                      CountAt(new, k)
                         = CountAt(old, k)
                             + (IF c = b /\ x = a /\ k = key THEN 1 ELSE 0)

C13_MonthKeyIsYearAndAbbrev ==
    [][(/\ LineStep
        /\ defaultGroupByForLogDate = "month"
        /\ IsCommitHeader(lastLine')
        /\ HeaderDate(lastLine').ok)
          => /\ Field(lastLine', ",", 1) \in DOMAIN RecordsAfter
             /\ OneBucketRaised(branchReports, branchReports', branchName,
                                Field(lastLine', ",", 1),
                                MonthKey(HeaderDate(lastLine')))]_vars

\* in month mode a@x had two headers dated 2024-01-10: 2024-JAN counts 2
C13_Witness ==
    /\ pc = "parse"
    /\ defaultGroupByForLogDate = "month"
    /\ lastLine = HdrA
    /\ CountAt(TimelineOf(Records, AuthorA),
               <<"2", "0", "2", "4", "-", "J", "A", "N">>) = 2

(***************************************************************************)
(* C14: a record, once made for an author in a branch, stays in that       *)
(* branch's map to the end of the run with CommitCount >= 1 and never      *)
(* decreasing, its line counters being zero or not; the only removal is    *)
(* that of a whole branch without authors.                                 *)
(***************************************************************************)
C14_Step ==
    \A b \in DOMAIN branchReports :
        IF b \in DOMAIN branchReports'
        THEN \A a \in DOMAIN branchReports[b].Contributions :
                 /\ a \in DOMAIN branchReports'[b].Contributions
                 /\ branchReports[b].Contributions[a].CommitCount >= 1
                 /\ branchReports'[b].Contributions[a].CommitCount
                       >= branchReports[b].Contributions[a].CommitCount
        ELSE DOMAIN branchReports[b].Contributions = {}

\* C14: records are never removed and their CommitCount never falls, in
\* every step of every run
C14_RecordsStay == [][C14_Step]_vars

\* the returned map holds a record with commits and no counted line
C14_Witness ==
    /\ pc = "done"
    /\ ret = "ok"
    /\ \E b \in DOMAIN branchReports :
          \E a \in DOMAIN branchReports[b].Contributions :
              LET r == branchReports[b].Contributions[a]
              IN  /\ r.CommitCount >= 1
                  /\ r.LinesAdded = 0
                  /\ r.LinesRemoved = 0
                  /\ r.LinesEdited = 0

(***************************************************************************)
(* C15: no merge-base lookup is ever run for the branch whose trimmed name *)
(* is the main branch name, and its range is its name alone; for every     *)
(* other named branch exactly one lookup is run, just before the log query *)
(* of that branch.                                                         *)
(***************************************************************************)
\* the positions in cs of the merge-base lookups for branch b
LookupsFor(cs, b) ==
    {i \in 1..Len(cs) : cs[i].cmd = "merge-base" /\ cs[i].branch = b}

C15_LookupOnlyForOtherBranches ==
    /\ LookupsFor(cmds, defaultMainBranchName) = {}
    /\ (pc \in {"log", "parse"} /\ branchName = defaultMainBranchName)
          => logRange = defaultMainBranchName
    /\ \A i \in 1..Len(cmds) :
          cmds[i].cmd = "log"
              => IF cmds[i].branch = defaultMainBranchName
                 THEN cmds[i].rev = defaultMainBranchName
                 ELSE /\ LookupsFor(cmds, cmds[i].branch) = {i - 1}
                      /\ cmds[i - 1].main = defaultMainBranchName
    /\ (pc = "done" /\ ret = "ok")
          => \A k \in 1..Len(NamedBranches(branchNames)) :
                 LET b == NamedBranches(branchNames)[k]
                 IN  b # defaultMainBranchName
                        => Cardinality(LookupsFor(cmds, b)) = 1

\* a finished run over main and dev: git branch, the log of main, the
\* lookup for dev, the log of dev
C15_Witness ==
    /\ pc = "done"
    /\ ret = "ok"
    /\ Len(cmds) = 4
    /\ cmds[2].cmd = "log" /\ cmds[2].branch = defaultMainBranchName
    /\ cmds[3].cmd = "merge-base" /\ cmds[3].branch = DevBranch
    /\ cmds[4].cmd = "log" /\ cmds[4].branch = DevBranch

(***************************************************************************)
(* C17: the parser context is empty when the parse of a branch starts;    *)
(* reading a line of the stream of branch B changes the report of no      *)
(* other branch, and a line that is no commit header and comes before the *)
(* first header of B's stream changes no report at all, so it is never    *)
(* counted for the last author of a branch parsed earlier.                *)
(***************************************************************************)
\* no commit header was read yet in the stream of the branch in work
BeforeFirstHeader == headerLines[branchName] = EmptyMap

C17_Step ==
    /\ (pc = "log" /\ pc' = "parse")
          => /\ currentEmail' = EmptyStr
             /\ currentDate' = EmptyStr
             /\ currentCommit' = EmptyStr
    /\ LineStep
          => /\ DOMAIN branchReports' = DOMAIN branchReports
             /\ \A b \in DOMAIN branchReports :
                    b # branchName => branchReports'[b] = branchReports[b]
             /\ (BeforeFirstHeader /\ ~IsCommitHeader(lastLine'))
                    => /\ branchReports' = branchReports
                       /\ currentEmail' = EmptyStr
                       /\ currentCommit' = EmptyStr

C17_ParseTouchesOwnReportOnly == [][C17_Step]_vars

\* main was parsed and has a record of a@x; the stream of dev starts with a
\* numeric stat line, and dev has no record
C17_Witness ==
    /\ pc = "parse"
    /\ branchName = DevBranch
    /\ lastLine = StatNum
    /\ BeforeFirstHeader
    /\ defaultMainBranchName \in DOMAIN branchReports
    /\ AuthorA \in DOMAIN branchReports[defaultMainBranchName].Contributions
    /\ branchReports[defaultMainBranchName].Contributions[AuthorA].CommitCount = 1
    /\ DOMAIN branchReports[DevBranch].Contributions = {}

(***************************************************************************)
(* C18: in every reachable state, for every author record of every branch  *)
(* the counts of its timeline buckets add up to its CommitCount at most,   *)
(* and to exactly its CommitCount if and only if the date of every header  *)
(* read for that author parsed.                                            *)
(***************************************************************************)
\* the sum of the counts of a timeline
RECURSIVE SumCounts(_)
SumCounts(timeline) ==
    IF DOMAIN timeline = {} THEN 0
    ELSE LET k == CHOOSE x \in DOMAIN timeline : TRUE
         IN  timeline[k]
               + SumCounts([x \in DOMAIN timeline \ {k} |-> timeline[x]])

\* every header read for author a in the stream of branch b had a date
AllDated(b, a) == CountAt(datedLines[b], a) = CountAt(headerLines[b], a)

C18_TimelineSumAtMostCommitCount ==
    \A b \in DOMAIN branchReports :
        \A a \in DOMAIN branchReports[b].Contributions :
            LET r == branchReports[b].Contributions[a]
                s == SumCounts(r.ContributionTimeline)
            IN  /\ s <= r.CommitCount
                /\ (s = r.CommitCount) <=> AllDated(b, a)

\* in the stream being parsed a@x has three headers: the dates of two
\* parse, into one bucket, and the date of the third does not
C18_Witness ==
    /\ pc = "parse"
    /\ AuthorA \in DOMAIN Records
    /\ Records[AuthorA].CommitCount = 3
    /\ Cardinality(DOMAIN Records[AuthorA].ContributionTimeline) = 1
    /\ SumCounts(Records[AuthorA].ContributionTimeline) = 2
    /\ ~AllDated(branchName, AuthorA)

(***************************************************************************)
(* The parser on its own: a log output is drawn line by line, parsed, and  *)
(* parsed again with its commit blocks in another order.  A commit block   *)
(* is a header line with the lines that follow it up to the next header;   *)
(* the lines before the first header stay where they are.                  *)
(***************************************************************************)
\* the positions of the header lines of a log output
HeaderPositions(lines) == {i \in 1..Len(lines) : IsCommitHeader(lines[i])}

\* the lines of a log output before its first header
Preamble(lines) ==
    IF HeaderPositions(lines) = {} THEN lines
    ELSE SubSeq(lines, 1, Min(HeaderPositions(lines)) - 1)

\* the k-th commit block of a log output
Block(lines, k) ==
    LET H     == HeaderPositions(lines)
        first == Kth(H, k)
        last  == IF k = Cardinality(H) THEN Len(lines) ELSE Kth(H, k + 1) - 1
    IN  SubSeq(lines, first, last)

\* the orders in which n blocks can be put
Orders(n) ==
    {p \in [1..n -> 1..n] : \A i, j \in 1..n : p[i] = p[j] => i = j}

\* the blocks of a log output, one after the other in the order p
RECURSIVE BlocksInOrder(_, _, _)
BlocksInOrder(lines, p, n) ==
    IF n = 0 THEN <<>>
    ELSE BlocksInOrder(lines, p, n - 1) \o Block(lines, p[n])

\* a log output with its commit blocks put in the order p
Reordered(lines, p) ==
    Preamble(lines) \o BlocksInOrder(lines, p, Cardinality(DOMAIN p))

progVars == <<pc, ret, fileFilter, defaultGroupByForLogDate, branchNames, idx,
              branchName, logRange, branchReports, currentCommit, currentDate,
              currentEmail, cmds, nLines, lastLine, headerLines, datedLines>>

InitReorder ==
    /\ pc = "start"
    /\ ret = "running"
    /\ fileFilter \in FileFilters
    /\ defaultGroupByForLogDate \in GroupByModes
    /\ branchNames = <<>>
    /\ idx = 1
    /\ branchName = EmptyStr
    /\ logRange = EmptyStr
    /\ branchReports = EmptyMap
    /\ currentCommit = EmptyStr
    /\ currentDate = EmptyStr
    /\ currentEmail = EmptyStr
    /\ cmds = <<>>
    /\ nLines = 0
    /\ lastLine = NoLine
    /\ headerLines = EmptyMap
    /\ datedLines = EmptyMap
    /\ reorder = [NoReorder EXCEPT !.phase = "draw"]

\* one more line of the log output
DrawLine(line) ==
    /\ reorder.phase = "draw"
    /\ Len(reorder.stream) < MaxLines
    /\ reorder' = [reorder EXCEPT !.stream = Append(@, line)]
    /\ UNCHANGED progVars

\* the loop over linesLog on the output as drawn
ParseGiven ==
    /\ reorder.phase = "draw"
    /\ reorder' = [reorder EXCEPT
                      !.phase = "parsed",
                      !.given = ParseStream(reorder.stream, fileFilter,
                                            defaultGroupByForLogDate).contribs]
    /\ UNCHANGED progVars

\* the loop over linesLog on the output with its blocks in the order p
ParseReordered(p) ==
    /\ reorder.phase = "parsed"
    /\ reorder' = [reorder EXCEPT
                      !.phase = "reordered",
                      !.shuffled = Reordered(reorder.stream, p),
                      !.permuted =
                          ParseStream(Reordered(reorder.stream, p), fileFilter,
                                      defaultGroupByForLogDate).contribs]
    /\ UNCHANGED progVars

NextReorder ==
    \/ \E line \in Lines : DrawLine(line)
    \/ ParseGiven
    \/ \E p \in Orders(Cardinality(HeaderPositions(reorder.stream))) :
          ParseReordered(p)

SpecReorder == InitReorder /\ [][NextReorder]_vars

(***************************************************************************)
(* C16: the bucket key of a commit is a function of the grouping mode and  *)
(* its date alone, and parsing a log output with its whole commit blocks   *)
(* in another order gives, for every author, the same CommitCount, the     *)
(* same line counters and the same timeline map.                           *)
(***************************************************************************)
C16_ReorderedBlocksSameRecords ==
    reorder.phase = "reordered"
        => /\ DOMAIN reorder.permuted = DOMAIN reorder.given
           /\ \A a \in DOMAIN reorder.given :
                 LET g == reorder.given[a]
                     r == reorder.permuted[a]
                 IN  /\ r.CommitCount = g.CommitCount
                     /\ r.LinesAdded = g.LinesAdded
                     /\ r.LinesRemoved = g.LinesRemoved
                     /\ r.LinesEdited = g.LinesEdited
                     /\ r.ContributionTimeline = g.ContributionTimeline

\* the commit of a@x with a numeric stat line and a commit of b@x were
\* parsed in both orders
C16_Witness ==
    /\ reorder.phase = "reordered"
    /\ reorder.shuffled # reorder.stream
    /\ DOMAIN reorder.given = {AuthorA, <<"b", "@", "x">>}
    /\ reorder.given[AuthorA].LinesEdited = 4
    /\ reorder.given[AuthorA].ContributionTimeline
          # reorder.given[<<"b", "@", "x">>].ContributionTimeline

====
